---- MODULE Spec2Model ----
(***************************************************************************)
(* Model of expense_tracker.py: the canonical table `df`, the cached       *)
(* filtered view `filtered_df`, the filter entry variables, the Treeview   *)
(* rows and totals written by refresh_table, and the button handlers       *)
(* apply_filter, clear_filter, on_add, on_delete and on_load_csv.          *)
(*                                                                         *)
(* Encodings.  A calendar date (datetime.date) is the integer yyyymmdd, so *)
(* integer order is calendar order.  A float amount is an integer number   *)
(* of thousandths (1.234 is 1234); float +inf is PosInf.  A missing cell   *)
(* of the table (NaN / NaT) is the value NaN.  `filtered_df is None` is    *)
(* the empty tuple, a cached view v is the 1-tuple <<v>>.                  *)
(***************************************************************************)
EXTENDS Integers, Sequences, FiniteSets

VARIABLES df, filtered_df, from_var, to_var, filter_cat_var,
          tree, total_var, cat_total_var, op, dialog, sel, had_filter, removed

vars == <<df, filtered_df, from_var, to_var, filter_cat_var,
          tree, total_var, cat_total_var, op, dialog, sel, had_filter, removed>>

(* ------------------------------ bounds --------------------------------- *)
\* largest number of records on_add lets the table grow to
MaxRecords == 3

\* largest number of rows of a CSV file
MaxRows == 2

(* ----------------------------- constants ------------------------------- *)
DEFAULT_COLUMNS == <<"Date", "Category", "Amount", "Description">>

None == <<>>

NaN == "NaN"

PosInf == 1000000000

\* date.today() during the run
Today == 20250106

SeqToSet(s) == {s[i] : i \in 1..Len(s)}

(* ------------------------- dates and numbers --------------------------- *)
\* datetime.strptime(s, f).date() for the i-th format of parse_date's list;
\* 0 stands for the ValueError of a text that does not fit the format
Strptime(s, i) ==
    CASE i = 1 /\ s = "2025-01-05" -> 20250105
      [] i = 1 /\ s = "2025-01-06" -> 20250106
      [] i = 2 /\ s = "05-01-2025" -> 20250105
      [] i = 2 /\ s = "06-01-2025" -> 20250106
      [] i = 3 /\ s = "05/01/2025" -> 20250105
      [] i = 3 /\ s = "06/01/2025" -> 20250106
      [] i = 4 /\ s = "2025/01/05" -> 20250105
      [] i = 4 /\ s = "2025/01/06" -> 20250106
      [] i = 5 /\ s = "05 Jan 2025" -> 20250105
      [] i = 5 /\ s = "06 Jan 2025" -> 20250106
      [] i = 6 /\ s = "05 January 2025" -> 20250105
      [] i = 6 /\ s = "06 January 2025" -> 20250106
      [] OTHER -> 0

RECURSIVE TryFormats(_, _)
TryFormats(s, i) ==
    IF i > 6 THEN [tag |-> "ValueError", d |-> 0]
    ELSE IF Strptime(s, i) # 0 THEN [tag |-> "date", d |-> Strptime(s, i)]
    ELSE TryFormats(s, i + 1)

\* s is the text after strip()
parse_date(s) ==
    IF s = "" THEN [tag |-> "None", d |-> 0] ELSE TryFormats(s, 1)

\* d.strftime(DATE_FMT)
strftime(d) ==
    CASE d = 20250105 -> "2025-01-05"
      [] d = 20250106 -> "2025-01-06"

\* pd.to_datetime(cell, errors="coerce") of one cell: the date, or NaT (0)
\* for a cell that is missing or is no date
to_datetime(cell) ==
    CASE cell = "2025-01-05" -> 20250105
      [] cell = "2025-01-06" -> 20250106
      [] OTHER -> 0

\* float(text): "ValueError", "nan", or a number (PosInf for "inf")
float(text) ==
    CASE text = "1.234" -> [tag |-> "num", v |-> 1234]
      [] text = "1.231" -> [tag |-> "num", v |-> 1231]
      [] text = "0" -> [tag |-> "num", v |-> 0]
      [] text = "inf" -> [tag |-> "num", v |-> PosInf]
      [] text = "nan" -> [tag |-> "nan", v |-> 0]
      [] OTHER -> [tag |-> "ValueError", v |-> 0]

isfinite(x) == x.tag = "num" /\ x.v # PosInf

\* float addition
FAdd(a, b) == IF a = PosInf \/ b = PosInf THEN PosInf ELSE a + b

\* rounding to 2 decimals, as done by f"{x:.2f}" and by Series.round(2)
Round2(a) == IF a = PosInf THEN PosInf ELSE ((a + 5) \div 10) * 10

(* ------------------------------ the view ------------------------------- *)
get_view_df == IF filtered_df # None THEN filtered_df[1] ELSE df

\* the values of one Treeview row
TreeRow(r) ==
    <<IF r.Date = NaN THEN "nan" ELSE r.Date, r.Category, Round2(r.Amount),
      r.Description>>

RECURSIVE nansum(_)
nansum(view) ==
    IF view = <<>> THEN 0
    ELSE FAdd(view[1].Amount, nansum(Tail(view)))

\* view.groupby("Category")["Amount"].sum() for one category
GroupSum(view, c) == nansum(SelectSeq(view, LAMBDA r : r.Category = c))

Groups(view) == {view[i].Category : i \in 1..Len(view)}

\* sort_values(ascending=False): the (category, formatted sum) pairs in an
\* order of descending sums; the order among equal sums is left open
PerCategory(view) ==
    LET G == Groups(view)
        n == Cardinality(G)
    IN  { [i \in 1..n |-> <<o[i], Round2(GroupSum(view, o[i]))>>] :
            o \in { p \in [1..n -> G] :
                      /\ \A i, j \in 1..n : i # j => p[i] # p[j]
                      /\ \A i, j \in 1..n :
                            i < j => GroupSum(view, p[i]) >= GroupSum(view, p[j]) } }

\* the totals taken over the whole table instead of the view
Refresh_store(view) ==
    /\ tree' = [i \in 1..Len(view) |-> TreeRow(view[i])]
    /\ total_var' = Round2(nansum(df'))
    /\ cat_total_var' \in PerCategory(df')

\* refresh_table for the view being displayed after the step
Refresh(view) ==
    /\ tree' = [i \in 1..Len(view) |-> TreeRow(view[i])]
    /\ total_var' = Round2(nansum(view))
    /\ cat_total_var' \in PerCategory(view)

(* ------------------------------ filtering ------------------------------ *)
\* df[pd.to_datetime(df["Date"]).dt.date >= fdate]; a NaT compares False
FromRows(rows, fdate) ==
    SelectSeq(rows, LAMBDA r : to_datetime(r.Date) # 0 /\ to_datetime(r.Date) >= fdate)

\* the upper bound taken as exclusive
ToRows_exclusive(rows, tdate) ==
    SelectSeq(rows, LAMBDA r : to_datetime(r.Date) # 0 /\ to_datetime(r.Date) < tdate)

ToRows(rows, tdate) ==
    SelectSeq(rows, LAMBDA r : to_datetime(r.Date) # 0 /\ to_datetime(r.Date) <= tdate)

CatRows(rows, c) == SelectSeq(rows, LAMBDA r : r.Category = c)

\* the body of apply_filter's try block on table `store`
FilterOutcome(store) ==
    LET f == parse_date(from_var)
        t == parse_date(to_var)
        s1 == IF from_var # "" /\ f.tag = "date" THEN FromRows(store, f.d) ELSE store
        s2 == IF to_var # "" /\ t.tag = "date" THEN ToRows(s1, t.d) ELSE s1
        s3 == IF filter_cat_var # "" /\ filter_cat_var # "All"
              THEN CatRows(s2, filter_cat_var) ELSE s2
    IN  IF f.tag = "ValueError" \/ t.tag = "ValueError"
        THEN [ok |-> FALSE, rows |-> <<>>]
        ELSE [ok |-> TRUE, rows |-> s3]

(* ------------------------------- inputs -------------------------------- *)
FromTexts == {"", "2025-01-06"}

ToTexts == {"", "05/01/2025", "soon"}

FilterCats == {"All", "Food"}

\* what the user has typed into the Add Expense form when pressing Add
Forms ==
    {[date |-> "05-01-2025", cat |-> "Food", amount |-> a, desc |-> "lunch"] :
        a \in {"1.234", "1.231", "", "abc", "inf", "nan"}}
    \cup {[date |-> d, cat |-> "Other", amount |-> "0", desc |-> ""] :
        d \in {"", "soon"}}

\* a CSV file as read by pd.read_csv: its header and its rows of cells; an
\* empty cell is read as NaN and is written "" here
CsvRows ==
    { [Date |-> "2025-01-05", Category |-> "Food", Amount |-> "1.234", Description |-> "lunch"],
      [Date |-> "2025-01-06", Category |-> "", Amount |-> "abc", Description |-> ""],
      [Date |-> "soon", Category |-> "Food", Amount |-> "inf", Description |-> "lunch"] }

CsvFiles ==
    { [columns |-> SeqToSet(DEFAULT_COLUMNS), rows |-> rs] :
        rs \in UNION {[1..k -> CsvRows] : k \in 0..MaxRows} }
    \cup { [columns |-> {"Date", "Category", "Description"}, rows |-> <<>>] }

(* ------------------------------- load_csv ------------------------------ *)
\* the row load_csv stores for one row of the file
LoadRow(c) ==
    [Date |-> IF to_datetime(c.Date) = 0 THEN NaN ELSE strftime(to_datetime(c.Date)),
     Category |-> IF c.Category = "" THEN "Other" ELSE c.Category,
     Amount |-> IF float(c.Amount).tag = "num" THEN float(c.Amount).v ELSE 0,
     Description |-> c.Description]

load_csv(file) ==
    IF \E i \in 1..Len(DEFAULT_COLUMNS) : DEFAULT_COLUMNS[i] \notin file.columns
    THEN [ok |-> FALSE, rows |-> <<>>]
    ELSE [ok |-> TRUE, rows |-> [i \in 1..Len(file.rows) |-> LoadRow(file.rows[i])]]

(* ------------------------------- handlers ------------------------------ *)
\* op, dialog, sel, had_filter and removed record the last handler run: its
\* name, the message box it ended with ("none" when it showed none), the
\* Treeview rows a confirmed on_delete worked on, whether a filter was
\* active when on_delete started, and how many records it took out of df.
NoDelete == /\ sel' = {} /\ had_filter' = FALSE /\ removed' = 0

\* the user types into the From / To entries or picks a filter category
EditFilter(f, t, c) ==
    /\ <<f, t, c>> # <<from_var, to_var, filter_cat_var>>
    /\ from_var' = f /\ to_var' = t /\ filter_cat_var' = c
    /\ op' = "edit_filter" /\ dialog' = "none" /\ NoDelete
    /\ UNCHANGED <<df, filtered_df, tree, total_var, cat_total_var>>

\* the view assigned before the upper bound is parsed
ApplyTo_early(store) ==
    LET r == FilterOutcome(store)
        f == parse_date(from_var)
    IN  IF r.ok
        THEN /\ filtered_df' = <<r.rows>>
             /\ Refresh(r.rows)
             /\ dialog' = "none"
        ELSE /\ dialog' = "Filter Error"
             /\ filtered_df' = IF f.tag = "date" THEN <<FromRows(store, f.d)>>
                               ELSE filtered_df
             /\ UNCHANGED <<tree, total_var, cat_total_var>>

\* apply_filter as called on the table `store` that self.df holds by then
ApplyTo(store) ==
    LET r == FilterOutcome(store)
    IN  IF r.ok
        THEN /\ filtered_df' = <<r.rows>>
             /\ Refresh(r.rows)
             /\ dialog' = "none"
        ELSE /\ dialog' = "Filter Error"
             /\ UNCHANGED <<filtered_df, tree, total_var, cat_total_var>>

apply_filter ==
    /\ op' = "apply_filter" /\ NoDelete
    /\ UNCHANGED <<df, from_var, to_var, filter_cat_var>>
    /\ ApplyTo(df)

\* the cached view left in place
ClearFilter_keep(store) ==
    /\ from_var' = "" /\ to_var' = "" /\ filter_cat_var' = "All"
    /\ filtered_df' = filtered_df
    /\ Refresh(get_view_df)

\* the body of clear_filter, `store` being what self.df holds by then
ClearFilter(store) ==
    /\ from_var' = "" /\ to_var' = "" /\ filter_cat_var' = "All"
    /\ filtered_df' = None
    /\ Refresh(store)

clear_filter ==
    /\ op' = "clear_filter" /\ dialog' = "none" /\ NoDelete
    /\ UNCHANGED df
    /\ ClearFilter(df)

\* the record on_add builds from the form; defined when the form is accepted
NewRow(form) ==
    LET d == parse_date(form.date)
    IN  [Date |-> strftime(IF d.tag = "None" THEN Today ELSE d.d),
         Category |-> IF form.cat = "" THEN "Other" ELSE form.cat,
         Amount |-> float(form.amount).v,
         Description |-> form.desc]

FormAccepted(form) ==
    /\ parse_date(form.date).tag # "ValueError"
    /\ form.amount # ""
    /\ float(form.amount).tag # "ValueError"
    /\ isfinite(float(form.amount))

\* the new row put in front
concat_front(store, row) == <<row>> \o store

\* pd.concat([self.df, pd.DataFrame([new_row])], ignore_index=True)
concat(store, row) == Append(store, row)

on_add(form) ==
    /\ op' = "on_add" /\ NoDelete
    /\ UNCHANGED <<from_var, to_var, filter_cat_var>>
    /\ IF FormAccepted(form)
       THEN /\ Len(df) < MaxRecords
            /\ df' = concat(df, NewRow(form))
            /\ IF filtered_df # None
               THEN ApplyTo(df')
               ELSE /\ Refresh(df')
                    /\ dialog' = "none"
                    /\ UNCHANGED filtered_df
       ELSE /\ dialog' = "Add Error"
            /\ UNCHANGED <<df, filtered_df, tree, total_var, cat_total_var>>

\* np.where(mask)[0] for the values of one selected Treeview row: the
\* positions of the view whose four fields equal them
MatchIdx(view, vals) ==
    { i \in 1..Len(view) :
        /\ view[i].Date = vals[1]
        /\ view[i].Category = vals[2]
        /\ Round2(view[i].Amount) = vals[3]
        /\ view[i].Description = vals[4] }

Min(S) == CHOOSE x \in S : \A y \in S : x <= y

\* nothing collected as soon as one selected row has no match
IndicesToDrop_strict(view, S) ==
    IF \E j \in S : MatchIdx(view, tree[j]) = {}
    THEN {}
    ELSE { Min(MatchIdx(view, tree[i])) : i \in S }

\* indices_to_drop, as the set of positions it holds
IndicesToDrop(view, S) ==
    { Min(MatchIdx(view, tree[i])) : i \in {j \in S : MatchIdx(view, tree[j]) # {}} }

\* view.drop(indices_to_drop).reset_index(drop=True)
DropRows(view, idx) ==
    LET RECURSIVE build(_)
        build(i) == IF i > Len(view) THEN <<>>
                    ELSE IF i \notin idx THEN <<view[i]>> \o build(i + 1)
                    ELSE build(i + 1)
    IN  build(1)

\* only the first record equal to a row of to_remove taken out
AntiJoin_first(store, to_remove) ==
    LET first == {i \in 1..Len(store) :
                    /\ store[i] \in to_remove
                    /\ \A j \in 1..(i - 1) : store[j] # store[i]}
        RECURSIVE build(_)
        build(i) == IF i > Len(store) THEN <<>>
                    ELSE IF i \notin first THEN <<store[i]>> \o build(i + 1)
                    ELSE build(i + 1)
    IN  build(1)

\* the left merge with to_remove on all four columns, keeping the rows of
\* the table that found no partner
AntiJoin(store, to_remove) ==
    SelectSeq(store, LAMBDA r : r \notin to_remove)

Untouched ==
    UNCHANGED <<df, filtered_df, from_var, to_var, filter_cat_var,
                tree, total_var, cat_total_var>>

on_delete(S, yes) ==
    /\ op' = "on_delete"
    /\ IF S = {}
       THEN /\ dialog' = "No rows selected"
            /\ NoDelete
            /\ Untouched
       ELSE IF ~yes
       THEN /\ dialog' = "declined"
            /\ NoDelete
            /\ Untouched
       ELSE LET view == get_view_df
                idx == IndicesToDrop(view, S)
            IN  /\ IF idx # {}
                   THEN /\ df' = IF filtered_df # None
                                 THEN AntiJoin(df, {view[i] : i \in idx})
                                 ELSE DropRows(view, idx)
                        /\ ClearFilter(df')
                        /\ dialog' = "none"
                   ELSE /\ dialog' = "Could not locate"
                        /\ Untouched
                /\ sel' = S
                /\ had_filter' = (filtered_df # None)
                /\ removed' = Len(df) - Len(df')

\* the user cancels the file dialog
on_load_csv_cancel ==
    /\ op' = "on_load_csv" /\ dialog' = "cancelled" /\ NoDelete
    /\ Untouched

on_load_csv(file) ==
    LET r == load_csv(file)
    IN  /\ op' = "on_load_csv" /\ NoDelete
        /\ IF r.ok
           THEN /\ df' = r.rows
                /\ ClearFilter(df')
                /\ dialog' = "none"
           ELSE /\ dialog' = "Load Error"
                /\ Untouched

(* ---------------------------- specification ---------------------------- *)
\* __init__: the empty table, or the default CSV when it exists and loads
Init ==
    /\ df \in {<<>>} \cup {load_csv(file).rows : file \in CsvFiles}
    /\ filtered_df = None
    /\ from_var = "" /\ to_var = "" /\ filter_cat_var = "All"
    /\ tree = [i \in 1..Len(df) |-> TreeRow(df[i])]
    /\ total_var = Round2(nansum(df))
    /\ cat_total_var \in PerCategory(df)
    /\ op = "init" /\ dialog = "none"
    /\ sel = {} /\ had_filter = FALSE /\ removed = 0

Next ==
    \/ \E f \in FromTexts, t \in ToTexts, c \in FilterCats : EditFilter(f, t, c)
    \/ apply_filter
    \/ clear_filter
    \/ \E form \in Forms : on_add(form)
    \/ \E S \in SUBSET (1..Len(tree)), yes \in BOOLEAN : on_delete(S, yes)
    \/ on_load_csv_cancel
    \/ \E file \in CsvFiles : on_load_csv(file)

Spec == Init /\ [][Next]_vars

(* ------------------------- notions used by the claims ------------------ *)
\* the k-th smallest member of the set K of positions
Nth(K, k) == CHOOSE i \in K : Cardinality({j \in K : j <= i}) = k

\* the records of s at the positions K, in the order they have in s
Picked(s, K) == [k \in 1..Cardinality(K) |-> s[Nth(K, k)]]

\* v can be obtained from s by leaving records out
IsSubsequence(v, s) ==
    \E K \in SUBSET (1..Len(s)) : v = Picked(s, K)

HasDate(r) == r.Date # NaN

DateOf(r) == to_datetime(r.Date)

\* the sum of the amounts of the records of v
RECURSIVE SumTo(_, _)
SumTo(v, n) == IF n = 0 THEN 0 ELSE SumTo(v, n - 1) + v[n].Amount

AmountSum(v) ==
    IF \E i \in 1..Len(v) : v[i].Amount = PosInf THEN PosInf ELSE SumTo(v, Len(v))

\* the record r has the four field values of the Treeview row `vals` (the
\* amount compared after rounding to 2 decimals); a missing date equals no
\* displayed text
Shows(r, vals) ==
    <<r.Date, r.Category, Round2(r.Amount), r.Description>> = vals

\* the first record of view that shows what `vals` shows, as a set
FirstShown(view, vals) ==
    { view[k] : k \in { n \in 1..Len(view) :
                          /\ Shows(view[n], vals)
                          /\ \A m \in 1..(n - 1) : ~Shows(view[m], vals) } }

Displayed(v) == [i \in 1..Len(v) |-> TreeRow(v[i])]

(* -------------------------------- claims ------------------------------- *)
\* C1: after a successful apply_filter the view holds exactly the records
\* of the store whose date lies within the given bounds (inclusive, a blank
\* bound ignored) and whose category is the chosen one (ignored for "All"),
\* in store order; with no criterion it is the store, and an empty store
\* gives an empty view.
C1_Kept ==
    { i \in 1..Len(df) :
        /\ from_var # "" => HasDate(df[i]) /\ DateOf(df[i]) >= parse_date(from_var).d
        /\ to_var # "" => HasDate(df[i]) /\ DateOf(df[i]) <= parse_date(to_var).d
        /\ filter_cat_var # "All" => df[i].Category = filter_cat_var }

C1_FilterExact ==
    (op = "apply_filter" /\ dialog = "none") =>
        /\ filtered_df = <<Picked(df, C1_Kept)>>
        /\ tree = Displayed(filtered_df[1])
        /\ (from_var = "" /\ to_var = "" /\ filter_cat_var = "All") => filtered_df[1] = df
        /\ df = <<>> => filtered_df[1] = <<>>

C1_Witness ==
    /\ op = "apply_filter" /\ dialog = "none"
    /\ to_var # "" /\ filter_cat_var # "All"
    /\ filtered_df # None
    /\ Len(filtered_df[1]) >= 2
    /\ Len(filtered_df[1]) < Len(df)
    /\ \E i \in C1_Kept : DateOf(df[i]) = parse_date(to_var).d
    /\ \E i \in 1..Len(df) : HasDate(df[i]) /\ DateOf(df[i]) > parse_date(to_var).d

\* C2: a confirmed delete under an active filter that matches at least one
\* selected row takes out of the store every record equal in all four
\* fields to a matched view row, keeps the others in order, and ends with
\* no filter active and the whole new store displayed.
C2_FilteredDelete ==
    [][ (op' = "on_delete" /\ dialog' = "none" /\ filtered_df # None) =>
          LET matched == UNION { FirstShown(filtered_df[1], tree[i]) : i \in sel' }
          IN  /\ df' = Picked(df, {i \in 1..Len(df) : df[i] \notin matched})
              /\ filtered_df' = None
              /\ from_var' = "" /\ to_var' = "" /\ filter_cat_var' = "All"
              /\ tree' = Displayed(df') ]_vars

C2_Witness ==
    /\ op = "on_delete" /\ dialog = "none" /\ had_filter
    /\ removed > Cardinality(sel)
    /\ df # <<>>
    /\ filtered_df = None

\* C3: a confirmed delete none of whose selected rows matches a record of
\* the view reports "Could not locate" and changes nothing; when at least
\* one selected row matches, unmatched ones are skipped and the delete goes
\* through.
C3_NotFound ==
    [][ (op' = "on_delete" /\ sel' # {}) =>
          IF \A i \in sel' : FirstShown(get_view_df, tree[i]) = {}
          THEN /\ dialog' = "Could not locate"
               /\ UNCHANGED <<df, filtered_df, from_var, to_var, filter_cat_var,
                              tree, total_var, cat_total_var>>
          ELSE /\ dialog' = "none"
               /\ Len(df') < Len(df) ]_vars

C3_Witness ==
    /\ op = "on_delete" /\ dialog = "Could not locate"
    /\ sel # {}
    /\ had_filter
    /\ Len(df) > Len(filtered_df[1])

\* C4: every record of the store has a valid date and a finite amount.
C4_StoreValid ==
    \A i \in 1..Len(df) : df[i].Date # NaN /\ df[i].Amount # PosInf

\* C5: a rejected add, a rejected CSV load and a rejected filter leave the
\* store and the displayed view as they were.
C5_AllOrNothing ==
    [][ (\/ dialog' = "Add Error"
         \/ dialog' = "Load Error"
         \/ (op' = "apply_filter" /\ dialog' = "Filter Error")) =>
          UNCHANGED <<df, filtered_df, tree, total_var, cat_total_var>> ]_vars

C5_Witness ==
    /\ op = "apply_filter" /\ dialog = "Filter Error"
    /\ from_var # ""
    /\ filtered_df # None
    /\ filtered_df[1] # <<>>
    /\ filtered_df[1] # df

\* C6: the displayed total is the sum of the amounts of the displayed view
\* (shown with 2 decimals), 0 for an empty view, and the per-category
\* subtotals are the sums per category of that view.
C6_TotalsMatchView ==
    LET v == get_view_df
        cats == {v[i].Category : i \in 1..Len(v)}
        OfCat(c) == Picked(v, {i \in 1..Len(v) : v[i].Category = c})
    IN  /\ total_var = Round2(AmountSum(v))
        /\ v = <<>> => total_var = 0
        /\ Len(cat_total_var) = Cardinality(cats)
        /\ {cat_total_var[i][1] : i \in 1..Len(cat_total_var)} = cats
        /\ \A i \in 1..Len(cat_total_var) :
              cat_total_var[i][2] = Round2(AmountSum(OfCat(cat_total_var[i][1])))

C6_Witness ==
    /\ filtered_df # None
    /\ Len(filtered_df[1]) >= 2
    /\ total_var # 0
    /\ total_var # Round2(AmountSum(df))
    /\ Len(cat_total_var) = 1

\* C7: the store changes only by a successful add (one record appended,
\* the earlier ones untouched), a successful load or a confirmed delete
\* with a match; filtering, clearing the filter, a delete without selection
\* and a declined delete leave it alone.
C7_StoreFrame ==
    [][ /\ df' # df =>
            \/ /\ op' = "on_add" /\ dialog' # "Add Error"
               /\ Len(df') = Len(df) + 1
               /\ SubSeq(df', 1, Len(df)) = df
            \/ op' = "on_load_csv" /\ dialog' = "none"
            \/ op' = "on_delete" /\ dialog' = "none" /\ sel' # {}
        /\ (op' = "on_add" /\ dialog' # "Add Error") => Len(df') = Len(df) + 1
        /\ (\/ op' \in {"apply_filter", "clear_filter", "edit_filter"}
            \/ dialog' \in {"No rows selected", "declined"}) => df' = df ]_vars

C7_Witness ==
    /\ op = "on_add" /\ dialog = "none"
    /\ Len(df) >= 2
    /\ df[Len(df)] # df[1]

\* C8: a successful load stores exactly the rows of the file whose Date
\* cell parses, in file order, with amount 0.0 for an unparsable amount,
\* "" for a missing description and "Other" for a missing category.
C8_Expected(file) ==
    LET rows == file.rows
        K == {i \in 1..Len(rows) : to_datetime(rows[i].Date) # 0}
        Conv(c) == [Date |-> strftime(to_datetime(c.Date)),
                    Category |-> IF c.Category = "" THEN "Other" ELSE c.Category,
                    Amount |-> IF float(c.Amount).tag = "num" THEN float(c.Amount).v ELSE 0,
                    Description |-> c.Description]
    IN  [k \in 1..Cardinality(K) |-> Conv(rows[Nth(K, k)])]

C8_LoadDropsUndated ==
    [][ \A file \in CsvFiles :
          (on_load_csv(file) /\ dialog' = "none") => df' = C8_Expected(file) ]_vars

\* C9: an active filtered view is always a subsequence of the store.
C9_ViewWithinStore ==
    filtered_df # None => IsSubsequence(filtered_df[1], df)

C9_Witness ==
    /\ op = "on_add" /\ dialog = "Filter Error"
    /\ filtered_df # None
    /\ filtered_df[1] # <<>>
    /\ Len(filtered_df[1]) < Len(df)

\* C10: without a filter, a confirmed delete of k selected rows that each
\* match a record takes exactly k records out of the store.
C10_DeletesAsManyAsSelected ==
    [][ (/\ op' = "on_delete" /\ dialog' = "none"
         /\ filtered_df = None
         /\ \A i \in sel' : FirstShown(df, tree[i]) # {}) =>
          Len(df') = Len(df) - Cardinality(sel') ]_vars

====
